---------------------------- MODULE Spec2Model ----------------------------
(***************************************************************************)
(* Model of lawaty/CV-Libraries: the Line primitive (line.py), the line    *)
(* classifier / redundancy eliminator / extremal selector                  *)
(* (line_detection.py) and the square reconstructor (square_detection.py). *)
(*                                                                         *)
(* A point is a pair <<x, y>> of integers, a Line is its pts attribute     *)
(* <<p0, p1>>.  Python floats are modelled by exact rationals <<n, d>>     *)
(* (d > 0, reduced) and int(float) by truncation toward zero.  Line        *)
(* objects held by a detector are references (indices) into Catalogue, so  *)
(* that list.remove, which compares objects by identity, can be modelled.  *)
(***************************************************************************)
EXTENDS Integers, Sequences, FiniteSets, TLC

VARIABLES
    verticalTolerance,      \* Line.verticalTolerance   (class attribute)
    horizontalTolerance,    \* Line.horizontalTolerance (class attribute)
    minLineDistance,        \* detector.minLineDistance
    _verticals,             \* detector._verticals   (list of Line references)
    _horizontals,           \* detector._horizontals (list of Line references)
    squareCorners,          \* detector.squareCorners
    pc,                     \* position of the caller: "ready", "done", "rerun"
    ret                     \* outcome of the last call (locals, result, exception)

vars == << verticalTolerance, horizontalTolerance, minLineDistance,
           _verticals, _horizontals, squareCorners, pc, ret >>

detectorVars == << minLineDistance, _verticals, _horizontals, squareCorners >>
toleranceVars == << verticalTolerance, horizontalTolerance >>

-----------------------------------------------------------------------------
(* Bounds of the model *)

MaxCoord == 1
MaxLines == 4
MaxTolerance == 1
MaxFrameLines == 2
MaxChainLen == 2

(* Program constants *)

VerticalSlope == 100000
DedupTolerance == 1
ExtremeMargin == 10
FrameExtent == 500
DefaultTolerance == 1
DefaultMinLineDistance == 20
CONTOURS == 1
HOUGH == 2
XEXTREMES == 1
YEXTREMES == 2
ANGLE == 3
HORIZONTALS == 4
VERTICALS == 5

-----------------------------------------------------------------------------
(* Python values *)

\* an optional keyword argument: None is the empty tuple, the value k is <<k>>
None == << >>
Some(k) == << k >>

\* Python truthiness of an optional integer argument (None and 0 are falsy)
Truthy(o) == o # None /\ o[1] # 0

\* the null reference of a Line variable (leftmost = None)
NoLine == 0

\* the value None of the constructor argument algorithm
NoAlgorithm == 0

\* the value of a call that returned v, and of a call that raised e
Return(v) == [exc |-> "none", val |-> v]
Raise(e) == [exc |-> e]

-----------------------------------------------------------------------------
(* Float arithmetic, as exact rationals <<n, d>> with d > 0 *)

Abs(n) == IF n < 0 THEN -n ELSE n

RECURSIVE GCD(_, _)
GCD(a, b) == IF b = 0 THEN a ELSE GCD(b, a % b)

\* the quotient n / d (d # 0) in lowest terms
Rat(n, d) ==
    LET g == GCD(Abs(n), Abs(d))
        s == IF d < 0 THEN -1 ELSE 1
    IN  << (s * n) \div g, (s * d) \div g >>

RatInt(k) == << k, 1 >>
RatAdd(a, b) == Rat(a[1] * b[2] + b[1] * a[2], a[2] * b[2])
RatSub(a, b) == Rat(a[1] * b[2] - b[1] * a[2], a[2] * b[2])
RatMul(a, b) == Rat(a[1] * b[1], a[2] * b[2])
RatDiv(a, b) == Rat(a[1] * b[2], a[2] * b[1])
RatGeq(a, b) == a[1] * b[2] >= b[1] * a[2]
RatLeq(a, b) == a[1] * b[2] =< b[1] * a[2]

\* int(x): truncation toward zero
RatTrunc(a) == IF a[1] >= 0 THEN a[1] \div a[2] ELSE -((-a[1]) \div a[2])

-----------------------------------------------------------------------------
(* line.py: the Line primitive *)

\* Line.slope
slope(l) ==
    LET x1 == l[1][1]  y1 == l[1][2]
        x2 == l[2][1]  y2 == l[2][2]
    IN  IF x2 - x1 = 0 THEN RatInt(VerticalSlope)
        ELSE Rat(y2 - y1, x2 - x1)

\* Line.isVertical / Line.isHorizontal, reading the class-wide tolerance tol
isVertical(l, tol) == RatGeq(slope(l), RatInt(tol))
isHorizontal(l, tol) == RatLeq(slope(l), RatInt(tol))

\* Line.mid
mid(l) == << (l[2][1] + l[1][1]) \div 2, (l[2][2] + l[1][2]) \div 2 >>

\* Line.length is math.sqrt of this sum; it is 0.0 exactly when the sum is 0
lengthSquared(l) ==
    LET dx == l[2][1] - l[1][1]
        dy == l[2][2] - l[1][2]
    IN  dx * dx + dy * dy

\* Line.intercept(x=..., y=...): the pair (ret, int(value))
intercept(l, x, y) ==
    LET x1 == l[1][1]  y1 == l[1][2]
        x2 == l[2][1]  y2 == l[2][2]
    IN  IF x # None /\ y # None THEN Raise("Exception")
        ELSE IF y # None
             THEN IF y2 - y1 = 0 THEN Return(<< FALSE, 0 >>)
                  ELSE Return(<< TRUE,
                          RatTrunc(RatAdd(Rat((x2 - x1) * (y[1] - y2), y2 - y1),
                                          RatInt(x2))) >>)
        ELSE IF x # None
             THEN IF x2 - x1 = 0 THEN Return(<< FALSE, 0 >>)
                  ELSE Return(<< TRUE,
                          RatTrunc(RatAdd(Rat((y2 - y1) * (x[1] - x2), x2 - x1),
                                          RatInt(y2))) >>)
        ELSE Return(None)

\* the test of extend for a line that already spans the two axes, in the
\* order tried only
alreadyExtendedInOrder(c1, c2, axis1, axis2) == c1 = axis1 /\ c2 = axis2

\* the test of extend for a line that already spans the two axes: c1, c2 are
\* the coordinates of pts[0], pts[1] along the direction of the axes
alreadyExtended(c1, c2, axis1, axis2) ==
    (c1 = axis1 /\ c2 = axis2) \/ (c1 = axis2 /\ c2 = axis1)

\* Line.extend with at least one of horizontals, verticals given (None or a
\* pair of axes): val is the pts of the returned line, same tells whether
\* the returned line is self
extendAxes(l, horizontals, verticals) ==
    LET x1 == l[1][1]  y1 == l[1][2]
        x2 == l[2][1]  y2 == l[2][2]
        axes == IF horizontals # None THEN horizontals ELSE verticals
        axis1 == IF axes[1] > axes[2] THEN axes[2] ELSE axes[1]
        axis2 == IF axes[1] > axes[2] THEN axes[1] ELSE axes[2]
    IN  IF horizontals # None /\ verticals # None THEN Raise("Exception")
        ELSE IF horizontals # None
             THEN IF y1 = y2 THEN Raise("Exception")
                  ELSE IF alreadyExtended(y1, y2, axis1, axis2)
                  THEN [exc |-> "none", val |-> l, same |-> TRUE]
                  ELSE [exc |-> "none", same |-> FALSE,
                        val |-> << << intercept(l, None, Some(axis2)).val[2],
                                      axis2 >>,
                                   << intercept(l, None, Some(axis1)).val[2],
                                      axis1 >> >>]
        ELSE IF x1 = x2 THEN Raise("Exception")
             ELSE IF alreadyExtended(x1, x2, axis1, axis2)
             THEN [exc |-> "none", val |-> l, same |-> TRUE]
             ELSE [exc |-> "none", same |-> FALSE,
                   val |-> << << axis2,
                                 intercept(l, Some(axis2), None).val[2] >>,
                              << axis1,
                                 intercept(l, Some(axis1), None).val[2] >> >>]

\* Line.extend(horizontals=..., verticals=...), reading the class-wide
\* horizontal tolerance tol when neither is given
extend(l, horizontals, verticals, tol) ==
    IF horizontals = None /\ verticals = None
    THEN IF isHorizontal(l, tol)
         THEN extendAxes(l, None, << 0, FrameExtent >>)
         ELSE extendAxes(l, << 0, FrameExtent >>, None)
    ELSE extendAxes(l, horizontals, verticals)

\* Line.split(end, ratio), the ratio being the float n / d given as <<n, d>>:
\* the split point is counted from pts[end], the two returned lines always
\* run from pts[0] to the split point and from the split point to pts[1]
split(l, end, ratio) ==
    LET x1 == IF end = 0 THEN l[1][1] ELSE l[2][1]
        y1 == IF end = 0 THEN l[1][2] ELSE l[2][2]
        x2 == IF end = 0 THEN l[2][1] ELSE l[1][1]
        y2 == IF end = 0 THEN l[2][2] ELSE l[1][2]
        split_pt ==
            << RatTrunc(RatAdd(RatInt(x1), RatMul(RatInt(x2 - x1), ratio))),
               RatTrunc(RatAdd(RatInt(y1), RatMul(RatInt(y2 - y1), ratio))) >>
    IN  IF ~(0 < ratio[1] /\ ratio[1] < ratio[2]) THEN Raise("Exception")
        ELSE Return(<< << l[1], split_pt >>, << split_pt, l[2] >> >>)

\* Line.mirror(x=..., y=...)
mirror(l, x, y) ==
    LET x1 == l[1][1]  y1 == l[1][2]
        x2 == l[2][1]  y2 == l[2][2]
        nx1 == IF Truthy(x) THEN x1 + 2 * (x[1] - x1) ELSE x1
        nx2 == IF Truthy(x) THEN x2 + 2 * (x[1] - x2) ELSE x2
        ny1 == IF Truthy(y) THEN y1 + 2 * (y[1] - y1) ELSE y1
        ny2 == IF Truthy(y) THEN y2 + 2 * (y[1] - y2) ELSE y2
    IN  << << nx1, ny1 >>, << nx2, ny2 >> >>

\* intersect with the test for parallel lines written m1 - m2 > 0
intersectOrdered(l, line) ==
    LET m1 == slope(l)
        b1 == RatInt(intercept(l, Some(0), None).val[2])
        m2 == slope(line)
        b2 == RatInt(intercept(line, Some(0), None).val[2])
    IN  IF RatSub(m1, m2)[1] > 0
        THEN LET x == RatDiv(RatSub(b2, b1), RatSub(m1, m2))
                 y == RatAdd(RatMul(m1, x), b1)
             IN  << TRUE, << RatTrunc(x), RatTrunc(y) >> >>
        ELSE << FALSE, << None, None >> >>

\* Line.intersect(line): the pair (found, point)
intersect(l, line) ==
    LET m1 == slope(l)
        b1 == RatInt(intercept(l, Some(0), None).val[2])
        m2 == slope(line)
        b2 == RatInt(intercept(line, Some(0), None).val[2])
    IN  IF RatSub(m1, m2) # RatInt(0)
        THEN LET x == RatDiv(RatSub(b2, b1), RatSub(m1, m2))
                 y == RatAdd(RatMul(m1, x), b1)
             IN  << TRUE, << RatTrunc(x), RatTrunc(y) >> >>
        ELSE << FALSE, << None, None >> >>

\* Line.perpDistance.perpDistPoint: the branch that computes the angle is
\* entered when l1 or l3 is 0.0 and divides by 2*l1*l3
perpDistPoint(l, pt) ==
    LET l1 == lengthSquared(<< pt, l[1] >>)
        l3 == lengthSquared(l)
    IN  IF ~(l1 # 0 /\ l3 # 0) THEN Raise("ZeroDivisionError")
        ELSE Return(0)

\* Line.perpDistance(obj): obj is [type |-> "tuple", v |-> point] or
\* [type |-> "Line", v |-> line]
perpDistance(l, obj) ==
    IF obj.type = "tuple" THEN perpDistPoint(l, obj.v)
    ELSE IF obj.type = "Line" THEN perpDistPoint(l, mid(obj.v))
    ELSE Raise("Exception")

-----------------------------------------------------------------------------
(* The Line objects a frame can contain; a detector holds references 1..7 *)

Catalogue ==
    << << << 0, 0 >>,   << 0, 100 >> >>,      \* 1
       << << 2, 0 >>,   << 2, 100 >> >>,      \* 2
       << << 10, 0 >>,  << 10, 100 >> >>,     \* 3
       << << 90, 0 >>,  << 90, 100 >> >>,     \* 4
       << << 0, 10 >>,  << 100, 10 >> >>,     \* 5
       << << 0, 90 >>,  << 100, 90 >> >>,     \* 6
       << << 10, 50 >>, << 20, 60 >> >> >>    \* 7: slope 1, starts at mid of 3

Refs == 1 .. Len(Catalogue)
Pts(r) == Catalogue[r]

\* the lists of at most n pairwise distinct Line objects: what
\* _houghAlgorithm builds, one new Line per detected segment
RefLists(n) ==
    UNION { { list \in [1 .. k -> Refs] :
                \A i, j \in 1 .. k : i # j => list[i] # list[j] } :
            k \in 0 .. n }

\* list.remove(x): drops the first element equal to x
RECURSIVE Remove(_, _)
Remove(list, x) ==
    IF list = << >> THEN << >>
    ELSE IF Head(list) = x THEN Tail(list)
    ELSE << Head(list) >> \o Remove(Tail(list), x)

-----------------------------------------------------------------------------
(* line_detection.py: LineDetector *)

\* LineDetector.__filterVerticals / __filterHorizontals
__filterVerticals(lines, tol) ==
    SelectSeq(lines, LAMBDA r : r # NoLine /\ isVertical(Pts(r), tol))
__filterHorizontals(lines, tol) ==
    SelectSeq(lines, LAMBDA r : r # NoLine /\ isHorizontal(Pts(r), tol))

\* the nested while loops with the removal applied to the line at index i
RECURSIVE dedupLoopDropsFirst(_, _, _, _, _)
dedupLoopDropsFirst(list, length, i, j, minDist) ==
    IF ~(i < length) THEN [exc |-> "none", list |-> list]
    ELSE IF ~(j < length)
         THEN dedupLoopDropsFirst(list, length, i + 1, i + 2, minDist)
    ELSE LET d == perpDistance(Pts(list[i + 1]),
                               [type |-> "Line", v |-> Pts(list[j + 1])])
         IN  IF d.exc # "none" THEN [exc |-> d.exc, list |-> list]
             ELSE IF Abs(d.val) < minDist
                  THEN dedupLoopDropsFirst(Remove(list, list[i + 1]),
                                           length - 1, i, j + 1, minDist)
                  ELSE dedupLoopDropsFirst(list, length, i, j + 1, minDist)

\* one of the two nested while loops of _eliminateRedundancies, from the
\* position (i, j) with the running length; i and j are the 0-based indices
RECURSIVE dedupLoop(_, _, _, _, _)
dedupLoop(list, length, i, j, minDist) ==
    IF ~(i < length) THEN [exc |-> "none", list |-> list]
    ELSE IF ~(j < length) THEN dedupLoop(list, length, i + 1, i + 2, minDist)
    ELSE LET d == perpDistance(Pts(list[i + 1]),
                               [type |-> "Line", v |-> Pts(list[j + 1])])
         IN  IF d.exc # "none" THEN [exc |-> d.exc, list |-> list]
             ELSE IF Abs(d.val) < minDist
                  THEN dedupLoop(Remove(list, list[j + 1]), length - 1,
                                 i, j + 1, minDist)
                  ELSE dedupLoop(list, length, i, j + 1, minDist)

\* LineDetector._eliminateRedundancies(lines), entered with the tolerances
\* <<hTol, vTol>>: the attributes and class attributes it leaves behind
eliminateOutcome(lines, hTol, vTol, minDist) ==
    LET v0 == __filterVerticals(lines, DedupTolerance)
        h0 == __filterHorizontals(lines, DedupTolerance)
        v == dedupLoop(v0, Len(v0), 0, 1, minDist)
        h == dedupLoop(h0, Len(h0), 0, 1, minDist)
    IN  IF v.exc # "none"
        THEN [exc |-> v.exc, verticals |-> v.list, horizontals |-> h0,
              hTol |-> DedupTolerance, vTol |-> DedupTolerance]
        ELSE IF h.exc # "none"
        THEN [exc |-> h.exc, verticals |-> v.list, horizontals |-> h.list,
              hTol |-> DedupTolerance, vTol |-> DedupTolerance]
        ELSE [exc |-> "none", verticals |-> v.list, horizontals |-> h.list,
              hTol |-> hTol, vTol |-> vTol]

\* the loop of xExtremes comparing pts[0][1] where it should compare pts[0][0]
RECURSIVE xExtremesLoopByY(_, _, _, _)
xExtremesLoopByY(lines, leftmost, rightmost, tol) ==
    IF lines = << >> THEN << leftmost, rightmost >>
    ELSE LET line == Head(lines)
             left == IF leftmost = NoLine
                        \/ Pts(line)[1][2] < Pts(leftmost)[1][2] - ExtremeMargin
                     THEN line ELSE leftmost
             right == IF rightmost = NoLine
                         \/ Pts(line)[1][2] > Pts(rightmost)[1][2] + ExtremeMargin
                      THEN line ELSE rightmost
         IN  IF isVertical(Pts(line), tol)
             THEN xExtremesLoopByY(Tail(lines), left, right, tol)
             ELSE xExtremesLoopByY(Tail(lines), leftmost, rightmost, tol)

\* LineDetector.xExtremes(lines): [leftmost, rightmost]
RECURSIVE xExtremesLoop(_, _, _, _)
xExtremesLoop(lines, leftmost, rightmost, tol) ==
    IF lines = << >> THEN << leftmost, rightmost >>
    ELSE LET line == Head(lines)
             x0 == Pts(line)[1][1]
             left == IF leftmost = NoLine
                        \/ x0 < Pts(leftmost)[1][1] - ExtremeMargin
                     THEN line ELSE leftmost
             right == IF rightmost = NoLine
                         \/ x0 > Pts(rightmost)[1][1] + ExtremeMargin
                      THEN line ELSE rightmost
         IN  IF isVertical(Pts(line), tol)
             THEN xExtremesLoop(Tail(lines), left, right, tol)
             ELSE xExtremesLoop(Tail(lines), leftmost, rightmost, tol)

xExtremes(lines, tol) == xExtremesLoop(lines, NoLine, NoLine, tol)

\* LineDetector.yExtremes(lines): [topmost, bottommost]
RECURSIVE yExtremesLoop(_, _, _, _)
yExtremesLoop(lines, topmost, bottommost, tol) ==
    IF lines = << >> THEN << topmost, bottommost >>
    ELSE LET line == Head(lines)
             top == IF topmost = NoLine
                       \/ Pts(line)[1][2] < Pts(topmost)[1][2] - ExtremeMargin
                    THEN line ELSE topmost
             bottom == IF bottommost = NoLine
                          \/ Pts(line)[1][1] > Pts(bottommost)[1][1] + ExtremeMargin
                       THEN line ELSE bottommost
         IN  IF isHorizontal(Pts(line), tol)
             THEN yExtremesLoop(Tail(lines), top, bottom, tol)
             ELSE yExtremesLoop(Tail(lines), topmost, bottommost, tol)

yExtremes(lines, tol) == yExtremesLoop(lines, NoLine, NoLine, tol)

-----------------------------------------------------------------------------
(* line_detection.py: LineDetector.run *)

\* the attributes of a LineDetector instance, under the names they are
\* stored by: a name __x written in the body of the class is stored, and
\* looked up, as _LineDetector__x
Attributes ==
    { "CONTOURS", "HOUGH", "XEXTREMES", "YEXTREMES", "ANGLE", "HORIZONTALS",
      "VERTICALS", "_LineDetector__algorithm", "minLength", "minLineDistance",
      "_LineDetector__quantity", "_LineDetector__filtering", "_toCanny",
      "_houghAlgorithm", "_contoursAlgorithm", "_eliminateRedundancies",
      "xExtremes", "yExtremes", "run", "_LineDetector__filterVerticals",
      "_LineDetector__filterHorizontals", "_LineDetector__filterByArea",
      "_verticals", "_horizontals" }

\* an attribute lookup in which every name LineDetector.run reads resolves
HasAttrAlways(name) == TRUE

\* whether the attribute lookup of name on a LineDetector succeeds
HasAttr(name) == name \in Attributes

\* the detection stage of LineDetector.run: the list result; the contours
\* algorithm appends what Line.draw returns, None, once per contour
detect(algorithm, lines) ==
    IF algorithm = HOUGH
    THEN IF HasAttr("_LineDetector__houghAlgorithm") THEN Return(lines)
         ELSE Raise("AttributeError")
    ELSE IF algorithm = CONTOURS
    THEN IF HasAttr("_LineDetector__contoursAlgorithm")
         THEN Return([k \in 1 .. Len(lines) |-> NoLine])
         ELSE Raise("AttributeError")
    ELSE Raise("UnboundLocalError")

\* one criterion of a filter chain applied to sequence_result
applyCriterion(criterion, sequence_result, hTol, vTol) ==
    IF criterion = XEXTREMES
    THEN IF \E k \in DOMAIN sequence_result : sequence_result[k] = NoLine
         THEN Raise("AttributeError")
         ELSE Return(xExtremes(sequence_result, vTol))
    ELSE IF criterion = YEXTREMES
    THEN IF \E k \in DOMAIN sequence_result : sequence_result[k] = NoLine
         THEN Raise("AttributeError")
         ELSE Return(yExtremes(sequence_result, hTol))
    ELSE IF criterion = VERTICALS
    THEN Return(__filterVerticals(sequence_result, vTol))
    ELSE IF criterion = HORIZONTALS
    THEN Return(__filterHorizontals(sequence_result, hTol))
    ELSE Return(sequence_result)

\* the loop over the criteria of one chain; started tells whether
\* sequence_result has left None, pool is horizontals + verticals
RECURSIVE chainLoop(_, _, _, _, _, _)
chainLoop(sequence, started, sequence_result, pool, hTol, vTol) ==
    IF sequence = << >>
    THEN [exc |-> "none", started |-> started, val |-> sequence_result]
    ELSE IF ~started /\ ~(/\ HasAttr("_LineDetector__horizontals")
                          /\ HasAttr("_LineDetector__verticals"))
    THEN Raise("AttributeError")
    ELSE LET step == applyCriterion(Head(sequence),
                         IF started THEN sequence_result ELSE pool,
                         hTol, vTol)
         IN  IF step.exc # "none" THEN Raise(step.exc)
             ELSE chainLoop(Tail(sequence), TRUE, step.val, pool, hTol, vTol)

\* the loop over the chains: result.extend(sequence_result) after each
RECURSIVE filteringLoop(_, _, _, _, _)
filteringLoop(filtering, result, pool, hTol, vTol) ==
    IF filtering = << >> THEN Return(result)
    ELSE LET chain == chainLoop(Head(filtering), FALSE, << >>, pool,
                                hTol, vTol)
         IN  IF chain.exc # "none" THEN Raise(chain.exc)
             ELSE IF ~chain.started THEN Raise("TypeError")
             ELSE filteringLoop(Tail(filtering), result \o chain.val,
                                pool, hTol, vTol)

\* LineDetector.__filterByArea: the sort reads the area of every element
\* and compares the areas, which are None for the lines this model builds
__filterByArea(lines, quantity) ==
    IF \E k \in DOMAIN lines : lines[k] = NoLine THEN Raise("AttributeError")
    ELSE IF Len(lines) >= 2 THEN Raise("TypeError")
    ELSE Return(SubSeq(lines, 1, IF quantity < Len(lines) THEN quantity
                                 ELSE Len(lines)))

\* the filtering and quantity stages of LineDetector.run
filterStage(filtering, quantity, result, verticals, horizontals, hTol, vTol) ==
    LET filtered ==
            IF filtering = None THEN Return(result)
            ELSE IF ~HasAttr("_filtering") THEN Raise("AttributeError")
            ELSE filteringLoop(filtering[1], << >>, horizontals \o verticals,
                               hTol, vTol)
    IN  IF filtered.exc # "none" THEN filtered
        ELSE IF Truthy(quantity) THEN __filterByArea(filtered.val, quantity[1])
        ELSE filtered

\* LineDetector(algorithm, filtering, quantity).run(frame), the frame
\* holding the segments lines: the outcome and the attributes left behind.
\* self holds the attributes and tolerances at the call: verticals,
\* horizontals, hTol, vTol, minDist
lineDetectorRun(algorithm, filtering, quantity, lines, self) ==
    LET unchanged(exc) == [exc |-> exc, verticals |-> self.verticals,
                           horizontals |-> self.horizontals,
                           hTol |-> self.hTol, vTol |-> self.vTol]
        detected == detect(algorithm, lines)
    IN  IF ~HasAttr("_LineDetector__toCanny") THEN unchanged("AttributeError")
        ELSE IF detected.exc # "none" THEN unchanged(detected.exc)
        ELSE IF ~HasAttr("_LineDetector__eliminateRedundancies")
        THEN unchanged("AttributeError")
        ELSE LET e == eliminateOutcome(detected.val, self.hTol, self.vTol,
                                       self.minDist)
                 out == filterStage(filtering, quantity, detected.val,
                                    e.verticals, e.horizontals, e.hTol, e.vTol)
             IN  IF e.exc # "none"
                 THEN [exc |-> e.exc, verticals |-> e.verticals,
                       horizontals |-> e.horizontals,
                       hTol |-> e.hTol, vTol |-> e.vTol]
                 ELSE out @@ [verticals |-> e.verticals,
                              horizontals |-> e.horizontals,
                              hTol |-> e.hTol, vTol |-> e.vTol]

-----------------------------------------------------------------------------
(* square_detection.py: SquareDetector *)

\* SquareDetector.__Found
__Found(verticals, horizontals) ==
    /\ verticals[1] # NoLine /\ verticals[2] # NoLine
    /\ horizontals[1] # NoLine /\ horizontals[2] # NoLine

\* the (vertical, horizontal) pairs in the order of the nested for loops
pairings(verticals, horizontals) ==
    << << verticals[1], horizontals[1] >>, << verticals[1], horizontals[2] >>,
       << verticals[2], horizontals[1] >>, << verticals[2], horizontals[2] >> >>

\* the loops of SquareDetector.run over the first n pairings: the value of
\* success and the list squareCorners after them
RECURSIVE cornersLoop(_, _)
cornersLoop(pairs, n) ==
    IF n = 0 THEN [success |-> TRUE, squareCorners |-> << >>]
    ELSE LET before == cornersLoop(pairs, n - 1)
             found == intersect(Pts(pairs[n][1]), Pts(pairs[n][2]))
         IN  [success |-> found[1],
              squareCorners |-> IF found[1]
                                THEN Append(before.squareCorners, found[2])
                                ELSE before.squareCorners]

\* run with the assignment to self.squareCorners moved out of the if
runOutcomeAlwaysStores(verticalSet, horizontalSet, hTol, vTol, stored) ==
    LET verticals == xExtremes(verticalSet, vTol)
        horizontals == yExtremes(horizontalSet, hTol)
        loop == cornersLoop(pairings(verticals, horizontals), 4)
    IN  IF __Found(verticals, horizontals)
        THEN [verticals |-> verticals, horizontals |-> horizontals,
              success |-> loop.success, squareCorners |-> loop.squareCorners]
        ELSE [verticals |-> verticals, horizontals |-> horizontals,
              success |-> FALSE, squareCorners |-> << >>]

\* SquareDetector.run from the deduplicated sets on, with the tolerances
\* in effect after _eliminateRedundancies returned
runOutcome(verticalSet, horizontalSet, hTol, vTol, stored) ==
    LET verticals == xExtremes(verticalSet, vTol)
        horizontals == yExtremes(horizontalSet, hTol)
        loop == cornersLoop(pairings(verticals, horizontals), 4)
    IN  IF __Found(verticals, horizontals)
        THEN [verticals |-> verticals, horizontals |-> horizontals,
              success |-> loop.success, squareCorners |-> loop.squareCorners]
        ELSE [verticals |-> verticals, horizontals |-> horizontals,
              success |-> FALSE, squareCorners |-> stored]

-----------------------------------------------------------------------------
(* The detector: state after construction and the operations on it *)

Tolerances == 0 .. MaxTolerance
MinLineDistances == { 1, DefaultMinLineDistance }

Init ==
    /\ verticalTolerance = DefaultTolerance
    /\ horizontalTolerance = DefaultTolerance
    /\ minLineDistance = DefaultMinLineDistance
    /\ _verticals = << >>
    /\ _horizontals = << >>
    /\ squareCorners = << >>
    /\ pc = "ready"
    /\ ret = [op |-> "none"]

\* the caller overrides the class-wide tolerances
setTolerances(v, h) ==
    /\ pc = "ready"
    /\ verticalTolerance' = v
    /\ horizontalTolerance' = h
    /\ UNCHANGED << detectorVars, pc, ret >>

\* the caller sets detector.minLineDistance
setMinLineDistance(d) ==
    /\ pc = "ready"
    /\ minLineDistance' = d
    /\ UNCHANGED << toleranceVars, _verticals, _horizontals, squareCorners,
                    pc, ret >>

\* the body of a call detector._eliminateRedundancies(lines)
eliminate(lines) ==
    \E e \in { eliminateOutcome(lines, horizontalTolerance, verticalTolerance,
                              minLineDistance) } :
        /\ _verticals' = e.verticals
        /\ _horizontals' = e.horizontals
        /\ horizontalTolerance' = e.hTol
        /\ verticalTolerance' = e.vTol
        /\ ret' = [op |-> "_eliminateRedundancies", lines |-> lines,
                   originalTolerances |->
                       << horizontalTolerance, verticalTolerance >>,
                   before |-> << _verticals, _horizontals >>,
                   exc |-> e.exc]
        /\ UNCHANGED << minLineDistance, squareCorners >>

\* detector._eliminateRedundancies(lines)
_eliminateRedundancies(lines) ==
    /\ pc = "ready"
    /\ pc' = "done"
    /\ eliminate(lines)

\* detector._eliminateRedundancies(detector._verticals + detector._horizontals)
\* after a call that returned
eliminateAgain ==
    /\ pc = "done"
    /\ ret.op = "_eliminateRedundancies"
    /\ ret.exc = "none"
    /\ pc' = "rerun"
    /\ eliminate(_verticals \o _horizontals)

\* the body of a call detector.run(frame), where the frame holds the
\* segments lines
frame(lines) ==
    \E e \in { eliminateOutcome(lines, horizontalTolerance, verticalTolerance,
                              minLineDistance) } :
    \E r \in { runOutcome(e.verticals, e.horizontals, e.hTol, e.vTol,
                        squareCorners) } :
        /\ _verticals' = e.verticals
        /\ _horizontals' = e.horizontals
        /\ horizontalTolerance' = e.hTol
        /\ verticalTolerance' = e.vTol
        /\ UNCHANGED minLineDistance
        /\ IF e.exc # "none"
           THEN /\ ret' = [op |-> "run", lines |-> lines, exc |-> e.exc]
                /\ UNCHANGED squareCorners
           ELSE /\ squareCorners' = r.squareCorners
                /\ ret' = [op |-> "run", lines |-> lines, exc |-> "none",
                           verticals |-> r.verticals,
                           horizontals |-> r.horizontals,
                           val |-> << r.success, r.squareCorners >>]

\* detector.run(frame) on the detector as configured
run(lines) ==
    /\ pc = "ready"
    /\ pc' = "done"
    /\ frame(lines)

\* detector.run(frame) on the next frame of a stream
runFrame(lines) ==
    /\ pc' = "done"
    /\ frame(lines)

\* detector.xExtremes(lines)
callXExtremes(lines) ==
    /\ pc = "ready"
    /\ pc' = "done"
    /\ ret' = [op |-> "xExtremes", lines |-> lines, exc |-> "none",
               val |-> xExtremes(lines, verticalTolerance)]
    /\ UNCHANGED << toleranceVars, detectorVars >>

\* detector.yExtremes(lines)
callYExtremes(lines) ==
    /\ pc = "ready"
    /\ pc' = "done"
    /\ ret' = [op |-> "yExtremes", lines |-> lines, exc |-> "none",
               val |-> yExtremes(lines, horizontalTolerance)]
    /\ UNCHANGED << toleranceVars, detectorVars >>

\* a freshly constructed detector is configured, then called once
Next ==
    \/ pc = "ready" /\ \E v, h \in Tolerances : setTolerances(v, h)
    \/ pc = "ready" /\ \E d \in MinLineDistances : setMinLineDistance(d)
    \/ pc = "ready" /\ \E lines \in RefLists(MaxLines) :
                           _eliminateRedundancies(lines)
    \/ eliminateAgain
    \/ pc = "ready" /\ \E lines \in RefLists(MaxLines) : run(lines)
    \/ pc = "ready" /\ \E lines \in RefLists(MaxLines) : callXExtremes(lines)
    \/ pc = "ready" /\ \E lines \in RefLists(MaxLines) : callYExtremes(lines)

Spec == Init /\ [][Next]_vars

\* one detector, built while the tolerances have their initial values, is
\* configured and then processes frame after frame
NextFrames ==
    \/ pc = "ready" /\ \E d \in MinLineDistances : setMinLineDistance(d)
    \/ \E lines \in RefLists(MaxFrameLines) : runFrame(lines)

SpecFrames == Init /\ [][NextFrames]_vars

\* the arguments of the constructor of LineDetector: the algorithm, the
\* filtering (None or a list of chains of criteria; the two-chain list is
\* the one the script of line_detection.py passes) and the quantity
Algorithms == { NoAlgorithm, CONTOURS, HOUGH }
Criteria == { XEXTREMES, YEXTREMES, ANGLE, HORIZONTALS, VERTICALS }
Chains == UNION { [1 .. n -> Criteria] : n \in 0 .. MaxChainLen }
Filterings == { None, Some(<< >>), Some(<< << XEXTREMES >>, << YEXTREMES >> >>) }
                  \cup { Some(<< chain >>) : chain \in Chains }
Quantities == { None, Some(1) }

\* LineDetector(algorithm, filtering, quantity).run(frame), as the script
\* of line_detection.py does for every frame
constructAndRun(algorithm, filtering, quantity, lines) ==
    \E r \in { lineDetectorRun(algorithm, filtering, quantity, lines,
                   [verticals |-> _verticals, horizontals |-> _horizontals,
                    hTol |-> horizontalTolerance, vTol |-> verticalTolerance,
                    minDist |-> minLineDistance]) } :
        /\ pc = "ready"
        /\ pc' = "done"
        /\ _verticals' = r.verticals
        /\ _horizontals' = r.horizontals
        /\ horizontalTolerance' = r.hTol
        /\ verticalTolerance' = r.vTol
        /\ ret' = IF r.exc = "none"
                  THEN [op |-> "LineDetector.run", algorithm |-> algorithm,
                        filtering |-> filtering, quantity |-> quantity,
                        lines |-> lines, exc |-> "none", val |-> r.val]
                  ELSE [op |-> "LineDetector.run", algorithm |-> algorithm,
                        filtering |-> filtering, quantity |-> quantity,
                        lines |-> lines, exc |-> r.exc]
        /\ UNCHANGED << minLineDistance, squareCorners >>

\* a LineDetector is built with its arguments and run on one frame
NextPipeline ==
    \/ pc = "ready" /\ \E v, h \in Tolerances : setTolerances(v, h)
    \/ pc = "ready" /\ \E algorithm \in Algorithms, filtering \in Filterings,
                           quantity \in Quantities,
                           lines \in RefLists(MaxFrameLines) :
                           constructAndRun(algorithm, filtering, quantity, lines)

SpecPipeline == Init /\ [][NextPipeline]_vars

-----------------------------------------------------------------------------
(* The Line primitive on its own: one call on lines of a small grid.       *)
(* The coordinates are -MaxCoord, 0 and MaxCoord, so that the differences  *)
(* of coordinates are 0, MaxCoord or 2 * MaxCoord: every slope is then a   *)
(* float without rounding error, and int() of the floats intersect         *)
(* computes is the truncation of their exact values.                      *)

Coords == { -MaxCoord, 0, MaxCoord }
Points == Coords \X Coords
Lines == Points \X Points
Axes == { None } \cup { Some(k) : k \in Coords }
Targets == [type : { "tuple" }, v : Points] \cup [type : { "Line" }, v : Lines]
               \cup { [type |-> "list", v |-> << >>] }

\* the ratios passed to split: 0.0, 0.25, 0.5 and 1.0
Ratios == { << 0, 1 >>, << 1, 4 >>, << 1, 2 >>, << 1, 1 >> }

\* the arguments (horizontals, verticals) passed to extend
AxisValues == (-MaxCoord - 1) .. (MaxCoord + 1)
AxisPairs == AxisValues \X AxisValues
ExtendArgs == { << h, None >> : h \in AxisPairs }
                  \cup { << None, v >> : v \in AxisPairs }
                  \cup { << h, h >> : h \in AxisPairs }
                  \cup { << None, None >> }

\* l.intersect(line)
callIntersect(l, line) ==
    /\ pc = "ready"
    /\ pc' = "done"
    /\ ret' = [op |-> "intersect", self |-> l, line |-> line, exc |-> "none",
               val |-> intersect(l, line)]
    /\ UNCHANGED << toleranceVars, detectorVars >>

\* l.perpDistance(obj)
callPerpDistance(l, obj) ==
    /\ pc = "ready"
    /\ pc' = "done"
    /\ ret' = [op |-> "perpDistance", self |-> l, obj |-> obj]
                  @@ perpDistance(l, obj)
    /\ UNCHANGED << toleranceVars, detectorVars >>

\* l.mirror(x=x, y=y)
callMirror(l, x, y) ==
    /\ pc = "ready"
    /\ pc' = "done"
    /\ ret' = [op |-> "mirror", self |-> l, x |-> x, y |-> y, exc |-> "none",
               val |-> mirror(l, x, y)]
    /\ UNCHANGED << toleranceVars, detectorVars >>

\* l.split(end, ratio)
callSplit(l, end, ratio) ==
    /\ pc = "ready"
    /\ pc' = "done"
    /\ ret' = [op |-> "split", self |-> l, end |-> end, ratio |-> ratio]
                  @@ split(l, end, ratio)
    /\ UNCHANGED << toleranceVars, detectorVars >>

\* l.extend(horizontals=args[1], verticals=args[2])
callExtend(l, args) ==
    /\ pc = "ready"
    /\ pc' = "done"
    /\ ret' = [op |-> "extend", self |-> l, horizontals |-> args[1],
               verticals |-> args[2]]
                  @@ extend(l, args[1], args[2], horizontalTolerance)
    /\ UNCHANGED << toleranceVars, detectorVars >>

\* extend called with the same arguments on the line the last extend returned
extendAgain ==
    /\ pc = "done"
    /\ ret.op = "extend"
    /\ ret.exc = "none"
    /\ pc' = "rerun"
    /\ ret' = [op |-> "extend", self |-> ret.val,
               horizontals |-> ret.horizontals, verticals |-> ret.verticals]
                  @@ extend(ret.val, ret.horizontals, ret.verticals,
                            horizontalTolerance)
    /\ UNCHANGED << toleranceVars, detectorVars >>

NextLine ==
    \/ pc = "ready" /\ \E l, line \in Lines : callIntersect(l, line)
    \/ pc = "ready" /\ \E l \in Lines, obj \in Targets :
                           callPerpDistance(l, obj)
    \/ pc = "ready" /\ \E l \in Lines, x, y \in Axes : callMirror(l, x, y)
    \/ pc = "ready" /\ \E l \in Lines, end \in { 0, 1 }, ratio \in Ratios :
                           callSplit(l, end, ratio)
    \/ pc = "ready" /\ \E l \in Lines, args \in ExtendArgs :
                           callExtend(l, args)
    \/ extendAgain

SpecLine == Init /\ [][NextLine]_vars

-----------------------------------------------------------------------------
(* Claims about the redundancy eliminator (specification Spec) *)

\* C1: _eliminateRedundancies leaves Line.verticalTolerance and
\* Line.horizontalTolerance equal to the values they had before the call on
\* every exit path, also when the pass raises partway.
C1_TolerancesRestored ==
    ret.op = "_eliminateRedundancies" =>
        << horizontalTolerance, verticalTolerance >> = ret.originalTolerances

\* C2: deduplicating the segments (0,0)-(0,100) and (2,0)-(2,100) leaves
\* exactly one survivor in _verticals when minLineDistance = 20 and leaves
\* both segments in _verticals when minLineDistance = 1.
C2_ScenarioSurvivors ==
    (pc = "done" /\ ret.op = "_eliminateRedundancies" /\ ret.lines = << 1, 2 >>) =>
        /\ ret.exc = "none"
        /\ minLineDistance = 20 => Len(_verticals) = 1
        /\ minLineDistance = 1 => _verticals = << 1, 2 >>

\* C3: deduplication is idempotent: running _eliminateRedundancies on the
\* concatenation of its own output sets returns, with the same _verticals
\* and the same _horizontals as the first run left.
C3_DedupIdempotent ==
    pc = "rerun" =>
        /\ ret.exc = "none"
        /\ << _verticals, _horizontals >> = ret.before

\* C14: after _eliminateRedundancies returns, no two distinct lines left in
\* _verticals, and no two distinct lines left in _horizontals, have a
\* perpDistance below minLineDistance.
C14_NoClosePairLeft ==
    (pc = "done" /\ ret.op = "_eliminateRedundancies" /\ ret.exc = "none") =>
        \A list \in { _verticals, _horizontals } :
            \A i, j \in DOMAIN list :
                i # j =>
                    LET d == perpDistance(Pts(list[i]),
                                 [type |-> "Line", v |-> Pts(list[j])])
                    IN  ~(d.exc = "none" /\ Abs(d.val) < minLineDistance)

\* C15: deduplication is first-wins: of a pair found too close the line at
\* the larger index is removed, so for a list of pairwise distinct Line
\* objects the survivors are an order-preserving subsequence of the
\* classified set, and the first line of a non-empty classified set survives.
C15_FirstWins ==
    (pc = "done" /\ ret.op = "_eliminateRedundancies") =>
        \A sets \in { << _verticals,
                          __filterVerticals(ret.lines, DedupTolerance) >>,
                       << _horizontals,
                          __filterHorizontals(ret.lines, DedupTolerance) >> } :
            LET survivors == sets[1]
                classified == sets[2]
            IN  /\ \A i \in DOMAIN survivors :
                       \E k \in DOMAIN classified :
                           classified[k] = survivors[i]
                /\ \A i, j \in DOMAIN survivors :
                       i < j => \E k, m \in DOMAIN classified :
                                    /\ k < m
                                    /\ classified[k] = survivors[i]
                                    /\ classified[m] = survivors[j]
                /\ classified # << >> =>
                       (survivors # << >> /\ survivors[1] = classified[1])

\* the pass removed lines from both classified sets and kept the first of each
C15_Witness ==
    /\ pc = "done"
    /\ ret.op = "_eliminateRedundancies"
    /\ ret.exc = "none"
    /\ ret.lines = << 2, 6, 1, 5 >>
    /\ _verticals = << 2 >>
    /\ _horizontals = << 6 >>

\* C16: yExtremes returns the topmost and the bottommost horizontal line of
\* its input: when some line satisfies isHorizontal, the first endpoint of
\* bottommost has a y no smaller than the largest first-endpoint y of the
\* horizontal lines minus 10, and that of topmost a y no larger than the
\* smallest such y plus 10.
C16_YExtremesBounds ==
    ret.op = "yExtremes" =>
        \A k \in DOMAIN ret.lines :
            isHorizontal(Pts(ret.lines[k]), horizontalTolerance) =>
                /\ ret.val[1] # NoLine
                /\ ret.val[2] # NoLine
                /\ Pts(ret.val[1])[1][2] =<
                       Pts(ret.lines[k])[1][2] + ExtremeMargin
                /\ Pts(ret.val[2])[1][2] >=
                       Pts(ret.lines[k])[1][2] - ExtremeMargin

\* C17: xExtremes returns [None, None] exactly when no line of the list
\* satisfies isVertical, and otherwise two vertical lines of the list, the
\* first endpoint of leftmost with an x of at most the minimum first-endpoint
\* x of the vertical lines plus 10 and that of rightmost with an x of at
\* least the maximum minus 10, whatever the order of the list.
C17_XExtremesBounds ==
    ret.op = "xExtremes" =>
        LET verticalRefs ==
                { ret.lines[k] : k \in { n \in DOMAIN ret.lines :
                      isVertical(Pts(ret.lines[n]), verticalTolerance) } }
        IN  IF verticalRefs = { }
            THEN ret.val = << NoLine, NoLine >>
            ELSE /\ ret.val[1] \in verticalRefs
                 /\ ret.val[2] \in verticalRefs
                 /\ \A r \in verticalRefs :
                        /\ Pts(ret.val[1])[1][1] =<
                               Pts(r)[1][1] + ExtremeMargin
                        /\ Pts(ret.val[2])[1][1] >=
                               Pts(r)[1][1] - ExtremeMargin

\* the vertical line met first stayed leftmost although a later one starts
\* further left, within the margin
C17_Witness ==
    /\ ret.op = "xExtremes"
    /\ ret.lines = << 3, 1, 4 >>
    /\ ret.val = << 3, 4 >>

-----------------------------------------------------------------------------
(* Claims about the square reconstructor (specification Spec) *)

\* C4: the corner sequence returned by SquareDetector.run contains either
\* 0 or exactly 4 points, never 1, 2 or 3.
C4_ZeroOrFourCorners ==
    (ret.op = "run" /\ ret.exc = "none") => Len(ret.val[2]) \in { 0, 4 }

\* C5: if any one of the four pairings of an extremal vertical with an
\* extremal horizontal is parallel, run reports success = False, whichever
\* of the four pairings it is.
C5_ParallelPairingFails ==
    (/\ ret.op = "run" /\ ret.exc = "none"
     /\ __Found(ret.verticals, ret.horizontals)
     /\ \E k \in 1 .. 4 :
            LET pair == pairings(ret.verticals, ret.horizontals)[k]
            IN  ~intersect(Pts(pair[1]), Pts(pair[2]))[1])
        => ret.val[1] = FALSE

\* C6: when the candidate set contains exactly one vertical line (together
\* with any horizontal lines), run on a fresh SquareDetector reports
\* found = False and returns an empty corner list.  (Exactly one line is
\* vertical for the tolerance of the classification and for the tolerance
\* in effect.)
C6_OneVerticalNotFound ==
    (/\ ret.op = "run"
     /\ Len(__filterVerticals(ret.lines, DedupTolerance)) = 1
     /\ Len(__filterVerticals(ret.lines, verticalTolerance)) = 1) =>
        /\ ret.exc = "none"
        /\ ret.val = << FALSE, << >> >>

\* C7: given the candidate lines (10,0)-(10,100), (90,0)-(90,100),
\* (0,10)-(100,10) and (0,90)-(100,90), run (on a detector left as it was
\* constructed) reports success and returns exactly the four corners
\* (10,10), (10,90), (90,10), (90,90).
C7_ScenarioCorners ==
    (/\ ret.op = "run" /\ ret.lines = << 3, 4, 5, 6 >>
     /\ minLineDistance = DefaultMinLineDistance
     /\ verticalTolerance = DefaultTolerance
     /\ horizontalTolerance = DefaultTolerance) =>
        /\ ret.exc = "none"
        /\ ret.val = << TRUE, << << 10, 10 >>, << 10, 90 >>,
                                 << 90, 10 >>, << 90, 90 >> >> >>

\* C18 (specification SpecFrames): across the frames one SquareDetector
\* processes, a frame in which one of the four extremal lines is missing
\* returns success = False, leaves the stored squareCorners unchanged and
\* returns the stored list; the stored list changes only in a frame in which
\* all four extremal lines exist, so the list returned is the one stored by
\* the most recent such frame (the empty list if there was none).
C18_MissingFrameKeepsCorners ==
    [][/\ (/\ ret'.op = "run" /\ ret'.exc = "none"
           /\ ~__Found(ret'.verticals, ret'.horizontals)) =>
              (/\ ret'.val = << FALSE, squareCorners >>
               /\ squareCorners' = squareCorners)
       /\ squareCorners' # squareCorners =>
              (/\ ret'.op = "run" /\ ret'.exc = "none"
               /\ __Found(ret'.verticals, ret'.horizontals)
               /\ squareCorners' = ret'.val[2])]_vars

\* a frame without vertical lines came after a frame that stored corners
C18_Witness ==
    /\ ret.op = "run"
    /\ ret.exc = "none"
    /\ ret.verticals = << NoLine, NoLine >>
    /\ ret.val[1] = FALSE
    /\ ret.val[2] # << >>
    /\ squareCorners = ret.val[2]

-----------------------------------------------------------------------------
(* Claims about the Line primitive (specification SpecLine) *)

\* C8: perpDistance returns 0 and raises no exception in the degenerate
\* case: the target coincides with pts[0] (l1 = 0) or the line has
\* p0 = p1 (l3 = 0).
C8_DegenerateReturnsZero ==
    (/\ ret.op = "perpDistance"
     /\ ret.obj.type \in { "tuple", "Line" }
     /\ LET target == IF ret.obj.type = "tuple" THEN ret.obj.v
                       ELSE mid(ret.obj.v)
        IN  target = ret.self[1] \/ ret.self[1] = ret.self[2])
        => (ret.exc = "none" /\ ret.val = 0)

\* C9: for two lines whose slope() values are equal (two vertical lines
\* included) intersect returns (False, (None, None)) and raises nothing; for
\* two lines with different slope() values it returns (True, point).
C9_ParallelIffEqualSlopes ==
    ret.op = "intersect" =>
        /\ ret.exc = "none"
        /\ IF slope(ret.self) = slope(ret.line)
           THEN ret.val[1] = FALSE /\ ret.val[2] = << None, None >>
           ELSE ret.val[1] = TRUE /\ ret.val[2] \in Int \X Int

\* two distinct vertical lines were intersected and reported parallel
C9_Witness ==
    /\ ret.op = "intersect"
    /\ ret.self[1][1] = ret.self[2][1]
    /\ ret.line[1][1] = ret.line[2][1]
    /\ ret.self[1][2] # ret.self[2][2]
    /\ ret.line[1][2] # ret.line[2][2]
    /\ ret.self[1][1] # ret.line[1][1]
    /\ ret.val = << FALSE, << None, None >> >>

\* C10: for every integer k (k = 0 included) mirror(x=k) returns the line
\* with endpoints (2k - x1, y1), (2k - x2, y2) and mirror(y=k) the line with
\* endpoints (x1, 2k - y1), (x2, 2k - y2).
C10_MirrorReflects ==
    ret.op = "mirror" =>
        LET x1 == ret.self[1][1]  y1 == ret.self[1][2]
            x2 == ret.self[2][1]  y2 == ret.self[2][2]
        IN  /\ (ret.x # None /\ ret.y = None) =>
                   ret.val = << << 2 * ret.x[1] - x1, y1 >>,
                                << 2 * ret.x[1] - x2, y2 >> >>
            /\ (ret.x = None /\ ret.y # None) =>
                   ret.val = << << x1, 2 * ret.y[1] - y1 >>,
                                << x2, 2 * ret.y[1] - y2 >> >>

\* C11: for every line with integer endpoints (negative coordinates
\* included) split(0, 0.5) returns two lines, the first from pts[0] to a
\* shared point and the second from that shared point to pts[1], and the
\* shared point is the value mid() returns for the line.
C11_SplitAtMid ==
    (ret.op = "split" /\ ret.end = 0 /\ ret.ratio = << 1, 2 >>) =>
        /\ ret.exc = "none"
        /\ ret.val = << << ret.self[1], mid(ret.self) >>,
                        << mid(ret.self), ret.self[2] >> >>

\* C13: for every line with y1 # y2 and every pair (a, b) of distinct axis
\* values, in either order, extend(horizontals=(a, b)) returns a line whose
\* endpoints have the y-coordinates min(a, b) and max(a, b), and extend with
\* the same pair applied to that result returns the very same line, its
\* endpoints unchanged; likewise for verticals, x1 # x2 and x-coordinates.
C13_ExtendSpansThenNoOp ==
    (/\ ret.op = "extend"
     /\ (ret.horizontals = None) # (ret.verticals = None)
     /\ LET k == IF ret.horizontals # None THEN 2 ELSE 1
            axes == IF ret.horizontals # None THEN ret.horizontals
                    ELSE ret.verticals
        IN  axes[1] # axes[2] /\ ret.self[1][k] # ret.self[2][k]) =>
        LET k == IF ret.horizontals # None THEN 2 ELSE 1
            axes == IF ret.horizontals # None THEN ret.horizontals
                    ELSE ret.verticals
        IN  /\ ret.exc = "none"
            /\ { ret.val[1][k], ret.val[2][k] } = { axes[1], axes[2] }
            /\ pc = "rerun" => (ret.same /\ ret.val = ret.self)

\* a line was extended to axes it did not span, and extend was applied again
\* to the new line with the same pair of axes
C13_Witness ==
    /\ pc = "rerun"
    /\ ret.op = "extend"
    /\ ret.exc = "none"
    /\ ret.horizontals = << 2, -2 >>
    /\ ret.verticals = None
    /\ ret.self[1][2] = 2
    /\ ret.self[2][2] = -2
    /\ ret.same

\* C19: for a vertical line x = c (both endpoints with x-coordinate c) and
\* a line with a different slope() value, intersect returns (True, (x, y))
\* with x = c, in whichever order the two lines are passed.
C19_IntersectOnVertical ==
    (ret.op = "intersect" /\ slope(ret.self) # slope(ret.line)) =>
        /\ ret.self[1][1] = ret.self[2][1] =>
               (ret.val[1] = TRUE /\ ret.val[2][1] = ret.self[1][1])
        /\ ret.line[1][1] = ret.line[2][1] =>
               (ret.val[1] = TRUE /\ ret.val[2][1] = ret.line[1][1])

=============================================================================
